---------------------------- MODULE Spec2Model ----------------------------
(***************************************************************************)
(* A model of pdf_table_extractor_improved.py: the PDFTableExtractor       *)
(* pipeline (clean_text, extract_text_with_positions,                      *)
(* detect_table_boundaries, refine_tables, clean_sheet_name, to_excel).    *)
(*                                                                         *)
(* A Python str is a sequence of characters; a character is a one-token    *)
(* TLA+ string ("a", " ", "NUL", ...).  A Python list is a sequence and a  *)
(* dict is a record.  None is the empty sequence None and an optional      *)
(* value v is <<v>>.                                                       *)
(*                                                                         *)
(* The module holds four specifications over one set of variables:         *)
(*   Spec          one document through extract_text_with_positions and    *)
(*                 detect_table_boundaries, one loop iteration per step;   *)
(*   SpecCleanText clean_text applied to a string, and to its own result;  *)
(*   SpecRefine    refine_tables on a list of candidate tables;            *)
(*   SpecExcel     the sheet-naming loop of to_excel;                      *)
(*   SpecLong      Spec on longer documents of fewer kinds of line;        *)
(*   SpecCalls     process_pdf and to_excel called on one extractor;       *)
(*   SpecBatch     process_pdf_files over the files of a folder.           *)
(* A specification leaves the other components' variables at Idle.         *)
(***************************************************************************)
EXTENDS Integers, Sequences, FiniteSets, TLC

VARIABLES
    \* ---- Spec: one document through extraction and boundary detection
    reader_pages,    \* reader.pages: per page the text page.extract_text() returns
    pages_data,      \* the list extract_text_with_positions returns
    pg,              \* detect_table_boundaries: index of page_data in pages_data
    ln,              \* detect_table_boundaries: index of line in page_data
    current_table,   \* detect_table_boundaries: current_table (None or <<table>>)
    tables,          \* detect_table_boundaries: tables
    pc,              \* "extract" | "detect" | "done" | "refined" | "idle"
    \* ---- SpecCleanText
    text,            \* the argument of clean_text
    cleaned,         \* clean_text(text)
    recleaned,       \* clean_text(clean_text(text))
    cpc,             \* "start" | "once" | "twice" | "idle"
    \* ---- SpecRefine
    raw_tables,      \* the argument of refine_tables
    refined_tables,  \* refine_tables: refined_tables
    rt,              \* refine_tables: index of table in raw_tables
    rpc,             \* "loop" | "done" | "idle"
    \* ---- SpecExcel
    self_tables,     \* to_excel: the part of self.tables still to be exported
    xi,              \* to_excel: i, the 0-based index of the next table
    sheet_names,     \* the titles passed to wb.create_sheet, in order
    xpc,             \* "loop" | "saved" | "idle"
    \* ---- SpecCalls: one PDFTableExtractor object
    reader,          \* what PdfReader does in the last process_pdf call
    extracted,       \* what extract_text_with_positions returned in that call
    extractor_tables,\* self.tables
    returned,        \* what the last process_pdf call returned
    exported,        \* the last to_excel call: its result and the sheets saved
    calls,           \* number of calls made so far
    kpc,             \* "new" | "processed" | "exported" | "idle"
    \* ---- SpecBatch: process_pdf_files
    files,           \* os.listdir(input_folder), with what happens to each file
    input_exists,    \* os.path.exists(input_folder)
    bi,              \* index in `files` of the next filename
    processed_files, \* processed_files
    written,         \* the indexes of the files whose workbook was saved
    ran,             \* the indexes of the files process_pdf was called for
    bpc              \* "start" | "loop" | "summary" | "notfound" | "idle"

detectVars == <<reader_pages, pages_data, pg, ln, current_table, tables, pc>>
cleanVars  == <<text, cleaned, recleaned, cpc>>
refineVars == <<raw_tables, refined_tables, rt, rpc>>
excelVars  == <<self_tables, xi, sheet_names, xpc>>
callVars   == <<reader, extracted, extractor_tables, returned, exported, calls, kpc>>
batchVars  == <<files, input_exists, bi, processed_files, written, ran, bpc>>
vars == <<detectVars, cleanVars, refineVars, excelVars, callVars, batchVars>>

None == <<>>

IdleDetect == /\ reader_pages = <<>> /\ pages_data = <<>> /\ pg = 0 /\ ln = 0
              /\ current_table = None /\ tables = <<>> /\ pc = "idle"
IdleClean  == /\ text = <<>> /\ cleaned = <<>> /\ recleaned = <<>> /\ cpc = "idle"
IdleRefine == /\ raw_tables = <<>> /\ refined_tables = <<>> /\ rt = 0 /\ rpc = "idle"
IdleExcel  == /\ self_tables = <<>> /\ xi = 0 /\ sheet_names = <<>> /\ xpc = "idle"
IdleCalls  == /\ reader = <<>> /\ extracted = <<>> /\ extractor_tables = <<>>
              /\ returned = <<>> /\ exported = <<>> /\ calls = 0 /\ kpc = "idle"
IdleBatch  == /\ files = <<>> /\ input_exists = FALSE /\ bi = 0
              /\ processed_files = 0 /\ written = <<>> /\ ran = <<>> /\ bpc = "idle"

(***************************************************************************)
(* Characters.                                                             *)
(***************************************************************************)
NUL  == "NUL"     \* '\x00'
SOH  == "SOH"     \* '\x01', an ASCII control character that is not whitespace
TAB  == "\t"      \* '\t',   ASCII whitespace
LF   == "\n"      \* '\n',   ASCII whitespace
SP   == " "
EACU == "U+00E9"  \* e-acute, not ASCII
NBSP == "U+00A0"  \* no-break space: not ASCII, and whitespace to str.strip and \s
YDIA == "U+00FF"  \* '\xff', not ASCII

\* The characters outside \x00-\x7F that the model's strings use.
NonAscii == {EACU, NBSP, YDIA}
\* The characters for which str.isspace() holds, which are those str.strip()
\* removes and the regular expression \s matches.
Whitespace == {SP, TAB, LF, NBSP}
\* The printable ASCII characters are \x20-\x7E.
NonPrintable == NonAscii \cup {NUL, SOH, TAB, LF}

(***************************************************************************)
(* Python's str and re primitives, on sequences of characters.             *)
(***************************************************************************)
RECURSIVE SkipWhile(_, _)
\* s without its longest prefix of characters in set S
SkipWhile(s, S) ==
    IF s # <<>> /\ Head(s) \in S THEN SkipWhile(Tail(s), S) ELSE s

\* re.sub(r'[^\x00-\x7F]+', ' ', s): every maximal run of non-ASCII characters
\* becomes one space
RECURSIVE re_sub_non_ascii(_)
re_sub_non_ascii(s) ==
    IF s = <<>> THEN <<>>
    ELSE IF Head(s) \in NonAscii
         THEN <<SP>> \o re_sub_non_ascii(SkipWhile(Tail(s), NonAscii))
         ELSE <<Head(s)>> \o re_sub_non_ascii(Tail(s))

\* s.replace(old, new) for one-character old and new
str_replace(s, old, new) ==
    [k \in 1..Len(s) |-> IF s[k] = old THEN new ELSE s[k]]

RECURSIVE rstrip(_)
rstrip(s) ==
    IF s # <<>> /\ s[Len(s)] \in Whitespace
    THEN rstrip(SubSeq(s, 1, Len(s) - 1)) ELSE s

\* s.strip()
str_strip(s) == rstrip(SkipWhile(s, Whitespace))

\* s.split(sep) for a one-character sep: always at least one piece
RECURSIVE split_acc(_, _, _)
split_acc(s, sep, cur) ==
    IF s = <<>> THEN <<cur>>
    ELSE IF Head(s) = sep
         THEN <<cur>> \o split_acc(Tail(s), sep, <<>>)
         ELSE split_acc(Tail(s), sep, cur \o <<Head(s)>>)

str_split(s, sep) == split_acc(s, sep, <<>>)

\* re.split(r'\s{2,}', s): s is cut at every maximal run of 2 or more whitespace
\* characters; a single whitespace character stays in its piece
RECURSIVE re_split_acc(_, _)
re_split_acc(s, cur) ==
    IF s = <<>> THEN <<cur>>
    ELSE LET rest == SkipWhile(s, Whitespace)
             run  == Len(s) - Len(rest)
         IN  IF run >= 2
             THEN <<cur>> \o re_split_acc(rest, <<>>)
             ELSE re_split_acc(Tail(s), cur \o <<Head(s)>>)

re_split_2ws(s) == re_split_acc(s, <<>>)

\* s restricted to the positions in set K, in their order
Restricted(s, K) ==
    [j \in 1..Cardinality(K) |->
        s[CHOOSE k \in K : Cardinality({ k2 \in K : k2 < k }) = j - 1]]

(***************************************************************************)
(* PDFTableExtractor.clean_text                                            *)
(***************************************************************************)
\* a wrong clean_text: strip() comes before the replacements
clean_text_StripFirst(s) ==
    str_replace(str_replace(re_sub_non_ascii(str_strip(s)), NUL, SP), YDIA, SP)

\* a wrong clean_text: every non-ASCII character becomes a space of its own
clean_text_PerChar(s) ==
    str_strip(str_replace(
        [k \in 1..Len(s) |-> IF s[k] \in NonAscii THEN SP ELSE s[k]], NUL, SP))

clean_text(s) ==
    str_strip(str_replace(str_replace(re_sub_non_ascii(s), NUL, SP), YDIA, SP))

(***************************************************************************)
(* Bounds and inputs of Spec.                                              *)
(***************************************************************************)
MaxPages == 2   \* pages of a document; a page may have no text
MaxLines == 4   \* lines of a document, over all its pages

\* The lines a page's text is made of.
RawLines == {
    <<"a", SP, SP, "b">>,                 \* two columns
    <<"c", NUL, SP, "d">>,                \* no run of 2 whitespace characters
    <<"e", SP, SP, "f", SP, SP, "g">>,    \* three columns
    <<"x", SP, "y">>,                     \* prose: one column
    <<>> }                                \* a blank line

RECURSIVE join_lines(_)
\* the text of a page: its lines joined by line breaks
join_lines(ls) ==
    IF ls = <<>> THEN <<>>
    ELSE IF Len(ls) = 1 THEN ls[1]
         ELSE ls[1] \o <<LF>> \o join_lines(Tail(ls))

\* the texts of a page of k lines; a page of no line has the empty text
PageTexts(k) == { join_lines(ls) : ls \in [1..k -> RawLines] }

RECURSIVE Documents(_, _)
\* the documents of m pages and at most n lines
Documents(m, n) ==
    IF m = 0 THEN {<<>>}
    ELSE UNION { { <<t>> \o rest : t \in PageTexts(k), rest \in Documents(m - 1, n - k) }
                 : k \in 0..n }

(***************************************************************************)
(* PDFTableExtractor.extract_text_with_positions (the reader succeeds)     *)
(***************************************************************************)
\* The number of sep in s
RECURSIVE str_count(_, _)
str_count(s, sep) ==
    IF s = <<>> THEN 0
    ELSE (IF Head(s) = sep THEN 1 ELSE 0) + str_count(Tail(s), sep)

\* History, for the claims only: which line of the page's text, as the reader
\* returned it, the k-th element of `lines` is a copy of.  clean_text(text)
\* changes no line break, and its strip() removes the line breaks of the leading
\* whitespace, so `lines` starts that many lines into the text.
raw_line_of(page_text, k) ==
    LET subst == str_replace(re_sub_non_ascii(page_text), NUL, SP)
        lead  == Len(subst) - Len(SkipWhile(subst, Whitespace))
        skip  == str_count(SubSeq(subst, 1, lead), LF)
    IN  str_split(page_text, LF)[k + skip]

\* a wrong body: the parts are split from the line as it is in the page text
structure_line_NoStrip(line, page_num, raw) ==
    LET parts == re_split_2ws(line)
    IN  << [text |-> clean_text(line), parts |-> parts,
            part_count |-> Len(parts), page |-> page_num + 1, raw |-> raw] >>

\* The body of `for line in lines` (lines 40-51): the entries appended to
\* structured_lines for one line.  `raw` is history, not a key of the dict.
structure_line(line, page_num, raw) ==
    LET cleaned_line == clean_text(line)
        parts        == re_split_2ws(cleaned_line)
    IN  IF parts # <<>>
        THEN << [text |-> cleaned_line, parts |-> parts,
                 part_count |-> Len(parts), page |-> page_num + 1, raw |-> raw] >>
        ELSE <<>>

RECURSIVE structure_lines(_, _, _, _)
\* structured_lines for lines[k..], lines 38-51
structure_lines(lines, k, page_num, page_text) ==
    IF k > Len(lines) THEN <<>>
    ELSE structure_line(lines[k], page_num, raw_line_of(page_text, k))
         \o structure_lines(lines, k + 1, page_num, page_text)

RECURSIVE extract_pages(_, _)
\* pages_data for reader.pages[page_num..] (page_num is 0-based), lines 28-53
extract_pages(pages, page_num) ==
    IF page_num >= Len(pages) THEN <<>>
    ELSE LET page_text == pages[page_num + 1]
         IN  IF page_text = <<>>
             THEN extract_pages(pages, page_num + 1)
             ELSE << structure_lines(str_split(clean_text(page_text), LF), 1,
                                     page_num, page_text) >>
                  \o extract_pages(pages, page_num + 1)

extract_text_with_positions(pages) == extract_pages(pages, 0)

(***************************************************************************)
(* PDFTableExtractor.detect_table_boundaries                               *)
(*                                                                         *)
(* A table is the dict {'page', 'header', 'rows'}.  Two more fields are    *)
(* history, for the claims only: hdr_src is the place <<pg, ln>> in        *)
(* pages_data of the line the header was taken from, and row_src[k] the    *)
(* place of the line row k was taken from.                                 *)
(***************************************************************************)
\* [self.clean_text(part) for part in line['parts']], lines 71 and 80
clean_parts(line) == [k \in 1..Len(line.parts) |-> clean_text(line.parts[k])]

\* a wrong test: a one-column line counts as a table line too
is_table_line_AnyLine(line) == line.part_count >= 1

\* line 68
is_table_line(line) == line.part_count > 1

\* lines 70-76
new_table(line, src) ==
    [page |-> line.page, header |-> clean_parts(line), rows |-> <<>>,
     hdr_src |-> src, row_src |-> <<>>]

\* a wrong width test: any multi-column line extends the table
width_matches_Always(line, table) == TRUE

\* line 79
width_matches(line, table) == line.part_count = Len(table.header)

\* lines 80-81
append_row(table, line, src) ==
    [table EXCEPT !.rows = Append(@, clean_parts(line)), !.row_src = Append(@, src)]

\* a wrong test: a table is appended to `tables` whatever its rows
has_rows_Any(cur) == cur # None

\* `current_table and len(current_table['rows']) >= 1`, lines 84 and 89
has_rows(cur) == cur # None /\ Len(cur[1].rows) >= 1

\* a wrong branch: a multi-column line of another width ends the table
on_table_line_CloseOnMismatch(cur, tbls, line, src) ==
    IF cur = None
    THEN [cur |-> <<new_table(line, src)>>, tbls |-> tbls]
    ELSE IF width_matches(line, cur[1])
         THEN [cur |-> <<append_row(cur[1], line, src)>>, tbls |-> tbls]
         ELSE [cur |-> None,
               tbls |-> IF has_rows(cur) THEN Append(tbls, cur[1]) ELSE tbls]

\* a wrong branch: the line that starts a table is also its first row
on_table_line_HeaderAsRow(cur, tbls, line, src) ==
    IF cur = None
    THEN [cur |-> <<append_row(new_table(line, src), line, src)>>, tbls |-> tbls]
    ELSE IF width_matches(line, cur[1])
         THEN [cur |-> <<append_row(cur[1], line, src)>>, tbls |-> tbls]
         ELSE [cur |-> cur, tbls |-> tbls]

\* a wrong branch: a multi-column line of another width ends the table and is
\* the header of a new one
on_table_line_RestartOnMismatch(cur, tbls, line, src) ==
    IF cur = None
    THEN [cur |-> <<new_table(line, src)>>, tbls |-> tbls]
    ELSE IF width_matches(line, cur[1])
         THEN [cur |-> <<append_row(cur[1], line, src)>>, tbls |-> tbls]
         ELSE [cur |-> <<new_table(line, src)>>,
               tbls |-> IF has_rows(cur) THEN Append(tbls, cur[1]) ELSE tbls]

\* the branch of a line with part_count > 1, lines 69-81: current_table and
\* tables after it
on_table_line(cur, tbls, line, src) ==
    IF cur = None
    THEN [cur |-> <<new_table(line, src)>>, tbls |-> tbls]
    ELSE IF width_matches(line, cur[1])
         THEN [cur |-> <<append_row(cur[1], line, src)>>, tbls |-> tbls]
         ELSE [cur |-> cur, tbls |-> tbls]

\* the branch of a line with part_count <= 1, lines 83-86
on_other_line(cur, tbls, line, src) ==
    [cur |-> None,
     tbls |-> IF has_rows(cur) THEN Append(tbls, cur[1]) ELSE tbls]

\* a wrong list operation: the table closed at the end of a page is put first
end_of_page_Prepend(cur, tbls) ==
    IF has_rows(cur)
    THEN [cur |-> None, tbls |-> <<cur[1]>> \o tbls]
    ELSE [cur |-> cur, tbls |-> tbls]

\* after the lines of a page, lines 88-91: current_table is set to None inside
\* the `if`, so a table without rows stays the current one
end_of_page(cur, tbls) ==
    IF has_rows(cur)
    THEN [cur |-> None, tbls |-> Append(tbls, cur[1])]
    ELSE [cur |-> cur, tbls |-> tbls]

(***************************************************************************)
(* Spec: one document.                                                     *)
(***************************************************************************)
Init ==
    /\ reader_pages \in Documents(MaxPages, MaxLines)
    /\ pages_data = <<>> /\ pg = 0 /\ ln = 0
    /\ current_table = None /\ tables = <<>>
    /\ pc = "extract"
    /\ IdleClean /\ IdleRefine /\ IdleExcel /\ IdleCalls /\ IdleBatch

\* extract_text_with_positions(), then lines 62-63 of detect_table_boundaries
Extract ==
    /\ pc = "extract"
    /\ pages_data' = extract_text_with_positions(reader_pages)
    /\ pg' = 1 /\ ln' = 1
    /\ current_table' = None /\ tables' = <<>>
    /\ pc' = "detect"
    /\ UNCHANGED <<reader_pages, cleanVars, refineVars, excelVars, callVars, batchVars>>

\* one iteration of `for line in page_data`, lines 66-86
DetectLine ==
    /\ pc = "detect"
    /\ pg <= Len(pages_data)
    /\ ln <= Len(pages_data[pg])
    /\ LET line == pages_data[pg][ln]
           r    == IF is_table_line(line)
                   THEN on_table_line(current_table, tables, line, <<pg, ln>>)
                   ELSE on_other_line(current_table, tables, line, <<pg, ln>>)
       IN  current_table' = r.cur /\ tables' = r.tbls
    /\ ln' = ln + 1
    /\ UNCHANGED <<reader_pages, pages_data, pg, pc, cleanVars, refineVars, excelVars, callVars, batchVars>>

\* the end of one iteration of `for page_data in pages_data`, lines 88-91
DetectEndPage ==
    /\ pc = "detect"
    /\ pg <= Len(pages_data)
    /\ ln > Len(pages_data[pg])
    /\ LET r == end_of_page(current_table, tables)
       IN  current_table' = r.cur /\ tables' = r.tbls
    /\ pg' = pg + 1 /\ ln' = 1
    /\ UNCHANGED <<reader_pages, pages_data, pc, cleanVars, refineVars, excelVars, callVars, batchVars>>

\* `return tables`, line 93
DetectReturn ==
    /\ pc = "detect"
    /\ pg > Len(pages_data)
    /\ pc' = "done"
    /\ UNCHANGED <<reader_pages, pages_data, pg, ln, current_table, tables,
                   cleanVars, refineVars, excelVars, callVars, batchVars>>

\* The steps of Spec are put together after refine_tables, which its last
\* step applies.

(***************************************************************************)
(* Claims about detect_table_boundaries (checked under Spec).              *)
(***************************************************************************)
\* The places <<pg, ln>> of the lines of pages_data, and the line at a place.
Places  == { <<p, l>> : p \in 1..MaxPages, l \in 1..(MaxLines + 1) } \cap
           { src \in (1..Len(pages_data)) \X (1..(MaxLines + 1)) :
               src[2] <= Len(pages_data[src[1]]) }
LineAt(src) == pages_data[src[1]][src[2]]
\* place a comes before place b in the order the detector reads the lines
Before(a, b) == a[1] < b[1] \/ (a[1] = b[1] /\ a[2] < b[2])
Emitted == { tables[k] : k \in 1..Len(tables) }
\* a string holds a run of 2 or more whitespace characters
HasWsRun(s) == \E k \in 1..(Len(s) - 1) : s[k] \in Whitespace /\ s[k + 1] \in Whitespace
\* the detector is about to read a multi-column line whose width is not the
\* width of the table being built
MismatchPending ==
    /\ pc = "detect" /\ pg <= Len(pages_data) /\ ln <= Len(pages_data[pg])
    /\ is_table_line(pages_data[pg][ln])
    /\ current_table # None
    /\ pages_data[pg][ln].part_count # Len(current_table[1].header)
\* a multi-column line of another width lies between the header of t and its row k
SkippedBefore(t, k) ==
    \E src \in Places :
        /\ Before(t.hdr_src, src) /\ Before(src, t.row_src[k])
        /\ LineAt(src).part_count > 1
        /\ LineAt(src).part_count # Len(t.header)

\* C1: every row of every table in the returned list has exactly as many cells as
\* the table's header.
C1_RowsMatchHeader ==
    \A t \in Emitted : \A k \in 1..Len(t.rows) : Len(t.rows[k]) = Len(t.header)

\* C1 witness: a table was returned that has a row read after a multi-column line
\* of another width, which the width test kept out of the table.
C1_Witness ==
    /\ pc = "done"
    /\ \E t \in Emitted : \E k \in 1..Len(t.rows) : SkippedBefore(t, k)

\* C2 as claimed: while a table is being built, a multi-column line of another
\* width closes the table (emitted if it has a row, else discarded) and leaves no
\* active table.
C2_MismatchCloses ==
    [][MismatchPending =>
         /\ current_table' = None
         /\ tables' = IF has_rows(current_table)
                      THEN Append(tables, current_table[1]) ELSE tables]_vars

\* C2 as amended: while a table is being built, a multi-column line of another
\* width is ignored: the table being built stays the current one, unchanged, and
\* nothing is emitted.
C2_MismatchIgnored ==
    [][MismatchPending => current_table' = current_table /\ tables' = tables]_vars

\* C2 witness: a returned table has a row that was read after a multi-column line
\* of another width: the later line of the original width extended the table.
C2_Witness ==
    \E t \in Emitted : \E k \in 1..Len(t.rows) :
        /\ SkippedBefore(t, k)
        /\ t.row_src[k][1] = t.hdr_src[1]

\* C3 as claimed: no table is active when the first line of a later page is read,
\* and every row of an emitted table comes from the page of the table's header.
C3_TableWithinOnePage ==
    /\ (pc = "detect" /\ pg > 1 /\ pg <= Len(pages_data) /\ ln = 1)
           => current_table = None
    /\ \A t \in Emitted : \A k \in 1..Len(t.rows) :
           LineAt(t.row_src[k]).page = t.page

\* the one page of pages_data is made of n >= 2 lines of the same width k >= 2
UniformPage ==
    /\ Len(pages_data) = 1
    /\ Len(pages_data[1]) >= 2
    /\ pages_data[1][1].part_count >= 2
    /\ \A l \in 1..Len(pages_data[1]) :
           pages_data[1][l].part_count = pages_data[1][1].part_count

\* C4: for a page of n >= 2 lines of the same width k >= 2 and nothing else, the
\* detector returns exactly one table: its header is the parts of the first line,
\* its rows are the parts of the other n-1 lines in their order, and the header
\* line is not a row.
C4_UniformPageOneTable ==
    (pc = "done" /\ UniformPage) =>
        /\ Len(tables) = 1
        /\ tables[1].page = pages_data[1][1].page
        /\ tables[1].header = pages_data[1][1].parts
        /\ tables[1].rows = [j \in 1..(Len(pages_data[1]) - 1) |->
                                pages_data[1][j + 1].parts]
        /\ \A j \in 1..Len(tables[1].row_src) :
               tables[1].row_src[j] # tables[1].hdr_src

\* C4 witness: such a page of three lines, the two rows different.
C4_Witness ==
    /\ pc = "done" /\ UniformPage
    /\ Len(pages_data[1]) = 3
    /\ pages_data[1][2].parts # pages_data[1][3].parts
    /\ Len(tables) = 1 /\ Len(tables[1].rows) = 2

\* every line of pages_data has one part
AllOneColumn == \A src \in Places : LineAt(src).part_count = 1
\* the lines a table was made of
SourcesOf(t) == {t.hdr_src} \cup { t.row_src[k] : k \in 1..Len(t.row_src) }

\* C5 as claimed: a structured line made from a line of the page text that has no
\* run of 2 or more whitespace characters has one part, and is the header or a row
\* of no table; a document of one-part lines gives no table.
C5_NoRunOnePart ==
    /\ \A src \in Places :
           ~HasWsRun(LineAt(src).raw) =>
               /\ LineAt(src).part_count = 1
               /\ \A t \in Emitted : src \notin SourcesOf(t)
    /\ (pc = "done" /\ AllOneColumn) => tables = <<>>

\* C5 as amended: a structured line whose text has, after clean_text, no run of 2
\* or more whitespace characters has one part, and is the header or a row of no
\* table; a document of one-part lines gives no table.
C5_NoRunAfterCleaning ==
    /\ \A src \in Places :
           ~HasWsRun(LineAt(src).text) =>
               /\ LineAt(src).part_count = 1
               /\ \A t \in Emitted : src \notin SourcesOf(t)
               /\ current_table # None => src \notin SourcesOf(current_table[1])
    /\ (pc = "done" /\ AllOneColumn) => tables = <<>>

\* C5 witness: a document of two or more prose lines went through the detector.
C5_Witness ==
    /\ pc = "done" /\ AllOneColumn /\ tables = <<>>
    /\ \E src \in Places : src[2] >= 2 /\ LineAt(src).text # <<>>
                           /\ ~HasWsRun(LineAt(src).text)

\* C6: every table in the returned list has at least one row.
C6_EmittedHasRow == \A t \in Emitted : Len(t.rows) >= 1

\* C6 witness: the first line of the document started a table, the second line,
\* of one part, closed it without a row, and no table with that header is returned.
C6_Witness ==
    /\ pc = "done"
    /\ Len(pages_data) >= 1 /\ Len(pages_data[1]) >= 2
    /\ pages_data[1][1].part_count > 1
    /\ pages_data[1][2].part_count = 1
    /\ \A t \in Emitted : t.hdr_src # <<1, 1>>

(***************************************************************************)
(* SpecCleanText: clean_text on a string, then on its own result.          *)
(***************************************************************************)
MaxLen == 4   \* characters of the argument of clean_text

\* printable ASCII, ASCII whitespace, ASCII control characters, NUL, non-ASCII
CleanAlphabet == {"a", SP, TAB, NUL, SOH, EACU, NBSP, YDIA}

InitCleanText ==
    /\ text \in UNION { [1..n -> CleanAlphabet] : n \in 0..MaxLen }
    /\ cleaned = <<>> /\ recleaned = <<>>
    /\ cpc = "start"
    /\ IdleDetect /\ IdleRefine /\ IdleExcel /\ IdleCalls /\ IdleBatch

\* cleaned = self.clean_text(text)
CleanOnce ==
    /\ cpc = "start"
    /\ cleaned' = clean_text(text)
    /\ cpc' = "once"
    /\ UNCHANGED <<text, recleaned, detectVars, refineVars, excelVars, callVars, batchVars>>

\* recleaned = self.clean_text(cleaned)
CleanTwice ==
    /\ cpc = "once"
    /\ recleaned' = clean_text(cleaned)
    /\ cpc' = "twice"
    /\ UNCHANGED <<text, cleaned, detectVars, refineVars, excelVars, callVars, batchVars>>

NextCleanText == CleanOnce \/ CleanTwice

SpecCleanText == InitCleanText /\ [][NextCleanText]_vars

(***************************************************************************)
(* Claims about clean_text (checked under SpecCleanText).                  *)
(***************************************************************************)
\* C8: clean_text returns a string for every string, and clean_text of its result
\* is that result.
C8_TotalIdempotent ==
    /\ cpc \in {"once", "twice"} =>
           \A k \in 1..Len(cleaned) : cleaned[k] \in CleanAlphabet
    /\ cpc = "twice" => recleaned = cleaned

\* C8 witness: a string that clean_text changes, cleaned twice.
C8_Witness ==
    /\ cpc = "twice"
    /\ cleaned # text /\ cleaned # <<>>
    /\ \E k \in 1..Len(text) : text[k] \in NonAscii \cup {NUL}

\* s without its leading and trailing whitespace, said without recursion: the
\* part of s from its first to its last character that is not whitespace
Trimmed(s) ==
    LET solid == { k \in 1..Len(s) : s[k] \notin Whitespace }
    IN  IF solid = {} THEN <<>>
        ELSE SubSeq(s, CHOOSE k \in solid : \A j \in solid : k <= j,
                       CHOOSE k \in solid : \A j \in solid : j <= k)

\* C9 as claimed: clean_text(s) is s with every character that is not printable
\* ASCII replaced by a space and the leading and trailing whitespace removed, so
\* it holds printable ASCII characters only.
C9_PrintableOnly ==
    cpc \in {"once", "twice"} =>
        /\ cleaned = Trimmed([k \in 1..Len(text) |->
                                 IF text[k] \in NonPrintable THEN SP ELSE text[k]])
        /\ \A k \in 1..Len(cleaned) : cleaned[k] \notin NonPrintable

\* C9 as amended: clean_text(s) is s with every maximal run of non-ASCII
\* characters replaced by one space, every NUL replaced by a space, and the
\* leading and trailing whitespace removed; every other character, the ASCII
\* control characters among them, stays.  The result holds ASCII characters
\* other than NUL only.
C9_AsciiOnly ==
    cpc \in {"once", "twice"} =>
        LET first == { k \in 1..Len(text) :
                         ~(k > 1 /\ text[k] \in NonAscii /\ text[k - 1] \in NonAscii) }
            kept  == Restricted(text, first)
        IN  /\ cleaned = Trimmed([k \in 1..Len(kept) |->
                                    IF kept[k] \in NonAscii \cup {NUL}
                                    THEN SP ELSE kept[k]])
            /\ \A k \in 1..Len(cleaned) : cleaned[k] \notin NonAscii \cup {NUL}

\* C9 witness: a run of two non-ASCII characters became one space, and an ASCII
\* control character stayed.
C9_Witness ==
    /\ cpc = "once"
    /\ Len(text) = 4 /\ text[2] \in NonAscii /\ text[3] \in NonAscii
    /\ text[1] = SOH
    /\ cleaned = <<SOH, SP, "a">>

(***************************************************************************)
(* PDFTableExtractor.refine_tables                                         *)
(*                                                                         *)
(* A DataFrame is [columns |-> the column names, rows |-> the rows], a row *)
(* a sequence of cells, a cell a string or NaN.                            *)
(***************************************************************************)
NaN == <<"NaN">>   \* np.nan; no string, since no character is "NaN"

Max(S) == CHOOSE x \in S : \A y \in S : y <= x

\* pd.DataFrame(rows, columns=header), line 102: <<df>>, or None when pandas
\* raises because the widest row has not as many cells as there are columns.
\* Shorter rows are filled up with missing values.
DataFrame(rows, header) ==
    IF rows # <<>> /\ Max({ Len(rows[k]) : k \in 1..Len(rows) }) # Len(header)
    THEN None
    ELSE << [columns |-> header,
             rows |-> [k \in 1..Len(rows) |->
                          [c \in 1..Len(header) |->
                              IF c <= Len(rows[k]) THEN rows[k][c] ELSE NaN]]] >>

\* df.replace('', np.nan), line 105
replace_empty(df) ==
    [df EXCEPT !.rows = [k \in 1..Len(@) |->
                            [c \in 1..Len(@[k]) |->
                                IF @[k][c] = <<>> THEN NaN ELSE @[k][c]]]]

\* df.dropna(how='all'), line 106: the rows that are all NaN go
dropna_rows(df) ==
    [df EXCEPT !.rows = SelectSeq(@, LAMBDA row :
                            \E c \in 1..Len(row) : row[c] # NaN)]

\* df.dropna(axis=1, how='all'), line 107: the columns that are all NaN go
dropna_columns(df) ==
    LET keep == { c \in 1..Len(df.columns) :
                    \E k \in 1..Len(df.rows) : df.rows[k][c] # NaN }
    IN  [columns |-> Restricted(df.columns, keep),
         rows |-> [k \in 1..Len(df.rows) |-> Restricted(df.rows[k], keep)]]

\* df.applymap(lambda x: self.clean_text(str(x)) if isinstance(x, str) else x),
\* line 110
applymap_clean(df) ==
    [df EXCEPT !.rows = [k \in 1..Len(@) |->
                            [c \in 1..Len(@[k]) |->
                                IF @[k][c] = NaN THEN NaN ELSE clean_text(@[k][c])]]]

\* df.empty: an axis of length 0
df_empty(df) == Len(df.columns) = 0 \/ Len(df.rows) = 0

\* a wrong test: the number of columns is not looked at
accepted_NotEmpty(df) == ~df_empty(df)

\* `not df.empty and len(df.columns) > 1`, line 112
accepted(df) == ~df_empty(df) /\ Len(df.columns) > 1

\* the body of `for table in raw_tables`, lines 100-119: what is appended to
\* refined_tables for one table
refine_table(table) ==
    LET made == DataFrame(table.rows, table.header)
    IN  IF made = None
        THEN <<>>
        ELSE LET df == applymap_clean(dropna_columns(dropna_rows(
                           replace_empty(made[1]))))
             IN  IF accepted(df)
                 THEN << [page |-> table.page, data |-> df] >>
                 ELSE <<>>

RECURSIVE refine_tables(_)
\* lines 95-121
refine_tables(raw) ==
    IF raw = <<>> THEN <<>>
    ELSE refine_table(Head(raw)) \o refine_tables(Tail(raw))

(***************************************************************************)
(* Spec: the steps of one document, put together.                          *)
(***************************************************************************)
\* process_pdf after detect_table_boundaries has returned, lines 134-139:
\* refined_tables is what refine_tables returns, kept in self.tables
Refine ==
    /\ pc = "done"
    /\ refined_tables' = refine_tables(tables)
    /\ pc' = "refined"
    /\ UNCHANGED <<reader_pages, pages_data, pg, ln, current_table, tables,
                   raw_tables, rt, rpc, cleanVars, excelVars, callVars, batchVars>>

Next == Extract \/ DetectLine \/ DetectEndPage \/ DetectReturn \/ Refine

Spec == Init /\ [][Next]_vars

(***************************************************************************)
(* SpecRefine: refine_tables on a list of candidate tables.                *)
(***************************************************************************)
MaxCells == 7   \* cells of the candidate tables of one call, header cells included

\* an empty cell, a cell with text, a cell that clean_text empties
RefineCells == {<<>>, <<"a">>, <<SP>>}

Digits == <<"0", "1", "2", "3", "4", "5", "6", "7", "8", "9">>

RECURSIVE str_int(_)
\* str(n) for an int n >= 0: its decimal digits
str_int(n) ==
    IF n < 10 THEN <<Digits[n + 1]>>
    ELSE str_int(n \div 10) \o <<Digits[(n % 10) + 1]>>

\* the candidate tables of w columns and r rows; every row has w cells, as in
\* the tables detect_table_boundaries returns
CandidateTables(w, r) ==
    { [page |-> 1,
       header |-> [c \in 1..w |-> <<"h">> \o str_int(c)],
       rows |-> rows] : rows \in [1..r -> [1..w -> RefineCells]] }

RECURSIVE CandidateLists(_)
\* the lists of candidate tables of at most `cells` cells in all
CandidateLists(cells) ==
    {<<>>} \cup
    UNION { UNION { { <<t>> \o rest : t \in CandidateTables(w, r),
                                     rest \in CandidateLists(cells - w * (r + 1)) }
                    : r \in 0..((cells \div w) - 1) }
            : w \in 1..cells }

InitRefine ==
    /\ \E l \in CandidateLists(MaxCells) :
           \* the table at index k is given page k, to tell the tables apart
           raw_tables = [k \in 1..Len(l) |-> [l[k] EXCEPT !.page = k]]
    /\ refined_tables = <<>>
    /\ rt = 1
    /\ rpc = "loop"
    /\ IdleDetect /\ IdleClean /\ IdleExcel /\ IdleCalls /\ IdleBatch

\* one iteration of `for table in raw_tables`, lines 99-119
RefineTable ==
    /\ rpc = "loop"
    /\ rt <= Len(raw_tables)
    /\ refined_tables' = refined_tables \o refine_table(raw_tables[rt])
    /\ rt' = rt + 1
    /\ UNCHANGED <<raw_tables, rpc, detectVars, cleanVars, excelVars, callVars, batchVars>>

\* `return refined_tables`, line 121
RefineReturn ==
    /\ rpc = "loop"
    /\ rt > Len(raw_tables)
    /\ rpc' = "done"
    /\ UNCHANGED <<raw_tables, refined_tables, rt, detectVars, cleanVars, excelVars, callVars, batchVars>>

NextRefine == RefineTable \/ RefineReturn

SpecRefine == InitRefine /\ [][NextRefine]_vars

(***************************************************************************)
(* Claims about refine_tables (checked under SpecRefine).                  *)
(***************************************************************************)
Refined == { refined_tables[k] : k \in 1..Len(refined_tables) }

\* C7: every table refine_tables returns has at least 2 columns and at least 1
\* row, and no row and no column of it is all missing values; the candidate tables
\* that would not are not in the list.
C7_RefinedShape ==
    \A t \in Refined :
        /\ Len(t.data.columns) >= 2
        /\ Len(t.data.rows) >= 1
        /\ \A k \in 1..Len(t.data.rows) :
               /\ Len(t.data.rows[k]) = Len(t.data.columns)
               /\ \E c \in 1..Len(t.data.columns) : t.data.rows[k][c] # NaN
        /\ \A c \in 1..Len(t.data.columns) :
               \E k \in 1..Len(t.data.rows) : t.data.rows[k][c] # NaN

\* C7 witness: refine_tables returned a table that lost an all-empty column, and
\* dropped another candidate table.
C7_Witness ==
    /\ rpc = "done"
    /\ Len(refined_tables) < Len(raw_tables)
    /\ \E t \in Refined :
           Len(t.data.columns) < Len(raw_tables[t.page].header)

(***************************************************************************)
(* PDFTableExtractor.clean_sheet_name and the sheet names of to_excel       *)
(***************************************************************************)
SheetNameMax == 31   \* name[:31], line 151

\* invalid_chars, line 147: the characters [ ] : * ? / \
invalid_chars == <<"[", "]", ":", "*", "?", "/", "\\">>

RECURSIVE remove_chars(_, _)
\* `for char in invalid_chars: name = name.replace(char, '')`, lines 148-149
remove_chars(name, chars) ==
    IF chars = <<>> THEN name
    ELSE remove_chars(SelectSeq(name, LAMBDA ch : ch # Head(chars)), Tail(chars))

\* s[:n]
str_prefix(s, n) == SubSeq(s, 1, IF Len(s) < n THEN Len(s) ELSE n)

\* a wrong clean_sheet_name: the name is not cut
clean_sheet_name_NotCut(name) == remove_chars(name, invalid_chars)

\* lines 144-151
clean_sheet_name(name) ==
    str_prefix(remove_chars(name, invalid_chars), SheetNameMax)

\* f"Page_{page}_Table_{i+1}", line 166
page_table_name(page, i) ==
    <<"P", "a", "g", "e", "_">> \o str_int(page)
    \o <<"_", "T", "a", "b", "l", "e", "_">> \o str_int(i + 1)

\* the title given to wb.create_sheet for the table at index i, lines 166-173
sheet_title(page, i) ==
    LET sheet_name == clean_sheet_name(page_table_name(page, i))
    IN  IF str_strip(sheet_name) = <<>>
        THEN <<"T", "a", "b", "l", "e", "_">> \o str_int(i + 1)
        ELSE sheet_name

(***************************************************************************)
(* SpecExcel: the loop `for i, table in enumerate(self.tables)` of         *)
(* to_excel, seen from its iteration xi on: self_tables holds the tables   *)
(* from index xi on.  Only the page of a table is kept; the cells do not   *)
(* enter the sheet's name.                                                 *)
(***************************************************************************)
MaxTables == 3   \* tables left to export

\* page numbers, of 1 to 10 digits
ExportPages == {1, 7, 12, 2147483647}
\* the index the loop is seen from: 9 tables were exported, so the 1-based
\* indices grow from 1 to 2 digits; 999999998 likewise, from 9 to 10 digits
StartIndexes == {0, 8, 999999998}

InitExcel ==
    /\ self_tables \in UNION { [1..n -> [page : ExportPages]] : n \in 0..MaxTables }
    /\ xi \in StartIndexes
    /\ sheet_names = <<>>
    /\ xpc = "loop"
    /\ IdleDetect /\ IdleClean /\ IdleRefine /\ IdleCalls /\ IdleBatch

\* `if not self.tables: return False`, lines 155-157
ExportNothing ==
    /\ xpc = "loop"
    /\ xi = 0 /\ self_tables = <<>>
    /\ xpc' = "nothing"
    /\ UNCHANGED <<self_tables, xi, sheet_names, detectVars, cleanVars, refineVars, callVars, batchVars>>

\* one iteration of the loop, lines 163-173: the sheet is created
ExportTable ==
    /\ xpc = "loop"
    /\ self_tables # <<>>
    /\ sheet_names' = Append(sheet_names, sheet_title(Head(self_tables).page, xi))
    /\ self_tables' = Tail(self_tables)
    /\ xi' = xi + 1
    /\ UNCHANGED <<xpc, detectVars, cleanVars, refineVars, callVars, batchVars>>

\* wb.save(output_path) and `return True`, lines 204-206
ExportSave ==
    /\ xpc = "loop"
    /\ xi > 0 /\ self_tables = <<>>
    /\ xpc' = "saved"
    /\ UNCHANGED <<self_tables, xi, sheet_names, detectVars, cleanVars, refineVars, callVars, batchVars>>

NextExcel == ExportNothing \/ ExportTable \/ ExportSave

SpecExcel == InitExcel /\ [][NextExcel]_vars

(***************************************************************************)
(* Claims about the sheet names (checked under SpecExcel).                 *)
(***************************************************************************)
\* C10: every sheet name to_excel creates a sheet with is not empty, has at most
\* 31 characters, and holds none of the characters [ ] : * ? / \ .
C10_SheetNameValid ==
    \A k \in 1..Len(sheet_names) :
        /\ sheet_names[k] # <<>>
        /\ Len(sheet_names[k]) <= 31
        /\ \A j \in 1..Len(sheet_names[k]) :
               sheet_names[k][j] \notin {"[", "]", ":", "*", "?", "/", "\\"}

\* C10 witness: a sheet was created whose name Page_2147483647_Table_1000000000,
\* of 32 characters, was cut to 31.
C10_Witness ==
    /\ xpc = "saved"
    /\ \E k \in 1..Len(sheet_names) :
           /\ Len(sheet_names[k]) = 31
           /\ SubSeq(sheet_names[k], 23, 31) = str_int(100000000)
           /\ SubSeq(sheet_names[k], 6, 15) = str_int(2147483647)

(***************************************************************************)
(* Claims about extract_text_with_positions (checked under Spec).          *)
(***************************************************************************)
\* C11: a line that is empty after clean_text is skipped: no structured line
\* of pages_data has the empty text, so the detector never reads one.
\* (It does not hold: re.split gives [''] for the empty line, `if parts:` at
\* line 46 is true of it, and the line is appended with part_count 1.)
C11_BlankLineSkipped ==
    \A src \in Places : LineAt(src).text # <<>>

(***************************************************************************)
(* The methods of PDFTableExtractor as functions of the reader's behaviour *)
(* and of self.tables.                                                     *)
(*                                                                         *)
(* A reader is [pages, fail_at]: `pages` are the texts the pages give, and *)
(* fail_at says where the PDF library raises: 0 when PdfReader(path)       *)
(* raises, k in 1..Len(pages) when extract_text() of page k raises, and    *)
(* Len(pages) + 1 when nothing raises.                                     *)
(***************************************************************************)
Min(a, b) == IF a <= b THEN a ELSE b

reader_raises(rd) == rd.fail_at <= Len(rd.pages)

\* a wrong handler: the pages extracted before the exception are returned
except_return_Partial(partial) == partial

\* `except Exception: ... return []`, lines 56-58; `partial` is pages_data as
\* it was when the exception was raised
except_return(partial) == <<>>

\* extract_text_with_positions with its try/except, lines 22-58
try_extract(rd) ==
    IF reader_raises(rd)
    THEN except_return(extract_text_with_positions(
             SubSeq(rd.pages, 1, Min(Len(rd.pages), rd.fail_at) - 1)))
    ELSE extract_text_with_positions(rd.pages)

RECURSIVE detect_lines(_, _, _, _, _)
\* `for line in page_data` from line l of page p on, lines 66-86
detect_lines(page_data, p, l, cur, tbls) ==
    IF l > Len(page_data) THEN [cur |-> cur, tbls |-> tbls]
    ELSE LET line == page_data[l]
             r    == IF is_table_line(line)
                     THEN on_table_line(cur, tbls, line, <<p, l>>)
                     ELSE on_other_line(cur, tbls, line, <<p, l>>)
         IN  detect_lines(page_data, p, l + 1, r.cur, r.tbls)

RECURSIVE detect_pages(_, _, _, _)
\* `for page_data in pages_data` from page p on, lines 65-91
detect_pages(data, p, cur, tbls) ==
    IF p > Len(data) THEN tbls
    ELSE LET r == detect_lines(data[p], p, 1, cur, tbls)
             e == end_of_page(r.cur, r.tbls)
         IN  detect_pages(data, p + 1, e.cur, e.tbls)

\* lines 60-93
detect_table_boundaries(data) == detect_pages(data, 1, None, <<>>)

\* process_pdf, lines 123-142, on an extractor whose self.tables is `old`:
\* what extraction gave, self.tables afterwards, and the value returned
process_pdf(rd, old) ==
    LET data == try_extract(rd)
    IN  IF data = <<>>
        THEN [extracted |-> data, tables |-> old, ret |-> <<>>]
        ELSE LET refined == refine_tables(detect_table_boundaries(data))
             IN  [extracted |-> data, tables |-> refined, ret |-> refined]

\* What can go wrong in to_excel: nothing, the export of one table raises
\* after its sheet is created (lines 175-199), or wb.save raises (line 204).
ExcelFaults == {"none", "table", "save"}

\* the titles of the sheets created for tbls[k..], lines 163-173
RECURSIVE sheet_titles(_, _)
sheet_titles(tbls, k) ==
    IF k > Len(tbls) THEN <<>>
    ELSE <<sheet_title(tbls[k].page, k - 1)>> \o sheet_titles(tbls, k + 1)

\* to_excel, lines 153-209, on an extractor whose self.tables is `tbls`: the
\* value returned, the sheets of the workbook written to output_path (none
\* when no workbook is written), and the number of tables skipped with an
\* "Error exporting table" message
to_excel(tbls, fault) ==
    IF tbls = <<>>
    THEN [ret |-> FALSE, sheets |-> <<>>, skipped |-> 0]
    ELSE [ret     |-> fault # "save",
          sheets  |-> IF fault = "save" THEN <<>> ELSE sheet_titles(tbls, 1),
          skipped |-> IF fault = "table" THEN 1 ELSE 0]

(***************************************************************************)
(* SpecCalls: process_pdf and to_excel called, in any order, on one        *)
(* extractor; the file at pdf_path may change between the calls.           *)
(***************************************************************************)
MaxCalls == 3

\* The documents at pdf_path: a page without text, a two-column table and a
\* page of prose, prose alone, a three-column table.
CallDocs == {
    << <<>> >>,
    << <<"a", SP, SP, "b", LF, "a", SP, SP, "b">>, <<"x", SP, "y">> >>,
    << <<"x", SP, "y">> >>,
    << <<"e", SP, SP, "f", SP, SP, "g", LF, "e", SP, SP, "f", SP, SP, "g">> >> }

Readers == UNION { { [pages |-> d, fail_at |-> k] : k \in 0..(Len(d) + 1) }
                   : d \in CallDocs }

\* PDFTableExtractor(pdf_path), lines 10-12
InitCalls ==
    /\ reader = <<>> /\ extracted = <<>> /\ returned = <<>> /\ exported = None
    /\ extractor_tables = <<>>
    /\ calls = 0
    /\ kpc = "new"
    /\ IdleDetect /\ IdleClean /\ IdleRefine /\ IdleExcel /\ IdleBatch

\* one call of process_pdf
ProcessPdf ==
    /\ kpc \in {"new", "processed", "exported"}
    /\ calls < MaxCalls
    /\ \E rd \in Readers :
         LET r == process_pdf(rd, extractor_tables)
         IN  /\ reader' = rd
             /\ extracted' = r.extracted
             /\ extractor_tables' = r.tables
             /\ returned' = r.ret
    /\ exported' = None
    /\ calls' = calls + 1
    /\ kpc' = "processed"
    /\ UNCHANGED <<detectVars, cleanVars, refineVars, excelVars, batchVars>>

\* one call of to_excel
ToExcel ==
    /\ kpc \in {"new", "processed", "exported"}
    /\ calls < MaxCalls
    /\ \E fault \in ExcelFaults :
         exported' = <<to_excel(extractor_tables, fault)>>
    /\ calls' = calls + 1
    /\ kpc' = "exported"
    /\ UNCHANGED <<reader, extracted, extractor_tables, returned,
                   detectVars, cleanVars, refineVars, excelVars, batchVars>>

NextCalls == ProcessPdf \/ ToExcel

SpecCalls == InitCalls /\ [][NextCalls]_vars

\* C12: when the PDF library raises, on opening the file or on extracting any
\* page, even after earlier pages gave text, extract_text_with_positions
\* returns the empty list and process_pdf returns the empty list.
C12_ReaderFailureGivesNoTables ==
    (kpc = "processed" /\ reader_raises(reader))
        => (extracted = <<>> /\ returned = <<>>)

\* process_pdf has returned after the library raised on page 2, the text of
\* page 1 having been extracted before
C12_Witness ==
    /\ kpc = "processed"
    /\ reader.fail_at = 2 /\ Len(reader.pages) >= 2
    /\ extract_text_with_positions(SubSeq(reader.pages, 1, 1)) # <<>>
    /\ extracted = <<>> /\ returned = <<>>

(***************************************************************************)
(* process_pdf_files, lines 211-239.                                       *)
(*                                                                         *)
(* A file of the input folder is [name, reader, fault]: its filename, how  *)
(* the PDF library behaves on it, and what goes wrong when its tables are  *)
(* exported.                                                               *)
(***************************************************************************)
UpperCase == <<"A", "B", "C", "D", "E", "F", "G", "H", "I", "J", "K", "L", "M",
               "N", "O", "P", "Q", "R", "S", "T", "U", "V", "W", "X", "Y", "Z">>
LowerCase == <<"a", "b", "c", "d", "e", "f", "g", "h", "i", "j", "k", "l", "m",
               "n", "o", "p", "q", "r", "s", "t", "u", "v", "w", "x", "y", "z">>

\* str.lower()
str_lower(s) ==
    [k \in 1..Len(s) |->
        IF \E u \in 1..Len(UpperCase) : UpperCase[u] = s[k]
        THEN LowerCase[CHOOSE u \in 1..Len(UpperCase) : UpperCase[u] = s[k]]
        ELSE s[k]]

\* str.endswith(suffix)
endswith(s, suffix) ==
    /\ Len(s) >= Len(suffix)
    /\ SubSeq(s, Len(s) - Len(suffix) + 1, Len(s)) = suffix

DotPdf == <<".", "p", "d", "f">>

\* a wrong test: the extension is compared as it is written
is_pdf_CaseSensitive(filename) == endswith(filename, DotPdf)

\* `filename.lower().endswith('.pdf')`, line 223
is_pdf(filename) == endswith(str_lower(filename), DotPdf)

\* a wrong count: a document counts as soon as tables were found in it
count_file_TablesFound(tbls, x, count) ==
    IF tbls # <<>> THEN count + 1 ELSE count

\* processed_files after lines 232-237; x is None when to_excel was not
\* called, and <<its result>> when it was
count_file(tbls, x, count) ==
    IF tbls # <<>>
    THEN (IF x[1].ret THEN count + 1 ELSE count)
    ELSE count

\* one iteration of `for filename in os.listdir(input_folder)`, lines 222-237,
\* for a file with a .pdf name: a new extractor (its self.tables is [], line
\* 12), process_pdf, and to_excel when tables were returned
process_file(file, count) ==
    LET r == process_pdf(file.reader, <<>>)
        x == IF r.ret # <<>> THEN <<to_excel(r.tables, file.fault)>> ELSE None
    IN  [tables    |-> r.tables,
         ret       |-> r.ret,
         workbook  |-> IF x # None /\ x[1].sheets # <<>> THEN <<x[1].sheets>> ELSE None,
         processed |-> count_file(r.ret, x, count)]

(***************************************************************************)
(* SpecBatch: process_pdf_files.                                           *)
(***************************************************************************)
MaxFiles == 2

NamePdf   == <<"a", ".", "p", "d", "f">>
NameUpper == <<"B", ".", "P", "D", "F">>
NameTxt   == <<"c", ".", "t", "x", "t">>

DocTable == << <<"a", SP, SP, "b", LF, "a", SP, SP, "b">>, <<"x", SP, "y">> >>
DocProse == << <<"x", SP, "y">> >>

\* the PDF library on a file: it cannot be opened, a page cannot be
\* extracted after page 1 was, a document with a table, a document without
BatchReaders == {
    [pages |-> DocTable, fail_at |-> 0],
    [pages |-> DocTable, fail_at |-> 2],
    [pages |-> DocTable, fail_at |-> 3],
    [pages |-> DocProse, fail_at |-> 2] }

BatchFiles ==
    { [name |-> NameTxt, reader |-> [pages |-> DocTable, fail_at |-> 0],
       fault |-> "none"] }
    \cup { [name |-> n, reader |-> rd, fault |-> f] :
             n \in {NamePdf, NameUpper}, rd \in BatchReaders, f \in ExcelFaults }

\* the listings of a folder: at most MaxFiles files, of different names
Folders ==
    UNION { { fs \in [1..n -> BatchFiles] :
                \A i, j \in 1..n : fs[i].name = fs[j].name => i = j }
            : n \in 0..MaxFiles }

\* process_file of every file and count, worked out once
process_file_table ==
    [file \in BatchFiles |-> [count \in 0..MaxFiles |-> process_file(file, count)]]

InitBatch ==
    /\ files \in Folders
    /\ input_exists \in BOOLEAN
    /\ bi = 0 /\ processed_files = 0 /\ written = <<>> /\ ran = <<>>
    /\ bpc = "start"
    /\ IdleDetect /\ IdleClean /\ IdleRefine /\ IdleExcel
    /\ reader = <<>> /\ extracted = <<>> /\ extractor_tables = <<>>
    /\ returned = <<>> /\ exported = <<>> /\ calls = 0 /\ kpc = "idle"

\* lines 213-215: the input folder is missing
BatchNotFound ==
    /\ bpc = "start" /\ ~input_exists
    /\ bpc' = "notfound"
    /\ UNCHANGED <<files, input_exists, bi, processed_files, written, ran,
                   detectVars, cleanVars, refineVars, excelVars, callVars>>

\* lines 217-220
BatchStart ==
    /\ bpc = "start" /\ input_exists
    /\ processed_files' = 0
    /\ bi' = 1
    /\ bpc' = "loop"
    /\ UNCHANGED <<files, input_exists, written, ran,
                   detectVars, cleanVars, refineVars, excelVars, callVars>>

\* one iteration of the loop for a name that is not a PDF's, lines 222-223
BatchSkip ==
    /\ bpc = "loop" /\ bi <= Len(files)
    /\ ~is_pdf(files[bi].name)
    /\ bi' = bi + 1
    /\ UNCHANGED <<files, input_exists, processed_files, written, ran, bpc,
                   detectVars, cleanVars, refineVars, excelVars, callVars>>

\* one iteration of the loop for a PDF, lines 222-237; extractor_tables and
\* returned are extractor.tables and `tables` after it
BatchFile ==
    /\ bpc = "loop" /\ bi <= Len(files)
    /\ is_pdf(files[bi].name)
    /\ LET r == process_file_table[files[bi]][processed_files]
       IN  /\ extractor_tables' = r.tables
           /\ returned' = r.ret
           /\ processed_files' = r.processed
           /\ written' = IF r.workbook # None THEN Append(written, bi) ELSE written
    /\ ran' = Append(ran, bi)
    /\ bi' = bi + 1
    /\ UNCHANGED <<files, input_exists, bpc, reader, extracted, exported, calls, kpc,
                   detectVars, cleanVars, refineVars, excelVars>>

\* line 239
BatchSummary ==
    /\ bpc = "loop" /\ bi > Len(files)
    /\ bpc' = "summary"
    /\ UNCHANGED <<files, input_exists, bi, processed_files, written, ran,
                   detectVars, cleanVars, refineVars, excelVars, callVars>>

NextBatch == BatchNotFound \/ BatchStart \/ BatchSkip \/ BatchFile \/ BatchSummary

SpecBatch == InitBatch /\ [][NextBatch]_vars

\* The program is one sequential loop without waiting: a step that can be
\* taken is taken.
SpecBatchFair == SpecBatch /\ WF_vars(NextBatch)

\* the elements of a sequence
Range(s) == { s[k] : k \in 1..Len(s) }
\* the files with a .pdf name, whatever the case of its letters
PdfIndexes == { i \in 1..Len(files) : files[i].name \in {NamePdf, NameUpper} }
\* the document of file i has no refined table, or saving its workbook fails
NoTablesOrSaveFails(i) ==
    \/ refine_tables(detect_table_boundaries(try_extract(files[i].reader))) = <<>>
    \/ files[i].fault = "save"

\* C13: processed_files is the number of documents whose workbook was saved;
\* a document without refined tables, or whose save failed, is not counted and
\* has no workbook.
C13_CountsSavedWorkbooks ==
    /\ bpc \in {"loop", "summary"} => processed_files = Len(written)
    /\ bpc = "summary" =>
         /\ processed_files = Cardinality(Range(written))
         /\ Range(written) = { i \in PdfIndexes : ~NoTablesOrSaveFails(i) }

\* the summary is reached after a document was counted, one had no tables and
\* one failed to save
C13_Witness ==
    /\ bpc = "summary"
    /\ processed_files = 1
    /\ Len(ran) = 2
    /\ \E i \in Range(ran) : NoTablesOrSaveFails(i)

\* process_pdf was called for the files with a .pdf name, each once, in the
\* order of the listing
AllPdfRan ==
    /\ Range(ran) = PdfIndexes
    /\ \A k \in 1..(Len(ran) - 1) : ran[k] < ran[k + 1]

\* C14: whatever fails in a document, the batch goes on: once started on an
\* existing folder it reaches its final summary, having run process_pdf for every
\* file with a .pdf name; each document has its own extractor, which holds no
\* table of an earlier document.
C14_EveryPdfIsProcessed ==
    /\ [](bpc \in {"loop", "summary"} => extractor_tables = returned)
    /\ (bpc = "start" /\ input_exists) ~> (bpc = "summary" /\ AllPdfRan)

\* the summary is reached after a document that failed (the library raised,
\* or the save did) was followed by a document whose workbook was saved
C14_Witness ==
    /\ bpc = "summary"
    /\ Len(ran) = 2
    /\ \/ reader_raises(files[ran[1]].reader)
       \/ files[ran[1]].fault \in {"table", "save"}
    /\ ran[1] \notin Range(written)
    /\ ran[2] \in Range(written)

(***************************************************************************)
(* More claims about detect_table_boundaries (checked under Spec).         *)
(***************************************************************************)
\* the step gives the table being built a header: a table is started
StartsTable ==
    /\ current_table' # None
    /\ \/ current_table = None
       \/ current_table'[1].hdr_src # current_table[1].hdr_src
\* the header of t was read between the header of s and a row of s
HeaderInside(t, s) ==
    /\ Before(s.hdr_src, t.hdr_src)
    /\ \E k \in 1..Len(s.row_src) : Before(t.hdr_src, s.row_src[k])

\* C15: a table is started only by a line read while no table is active, and
\* that line is its header; a multi-column line of another width read while a
\* table is being built is the header of nothing, so the header of an emitted
\* table never lies between the header and a row of another.
C15_HeaderOnlyWhenIdle ==
    /\ [][StartsTable =>
            /\ current_table = None
            /\ current_table'[1].hdr_src = <<pg, ln>>
            /\ current_table'[1].rows = <<>>]_vars
    /\ [][MismatchPending =>
            /\ current_table' # None
            /\ current_table'[1].hdr_src # <<pg, ln>>]_vars
    /\ [](\A t, s \in Emitted : ~HeaderInside(t, s))

\* the detector has returned a table one of whose rows was read after a
\* multi-column line of another width, and that line is the header of no table
C15_Witness ==
    /\ pc = "done"
    /\ \E t \in Emitted : \E k \in 1..Len(t.rows) : \E src \in Places :
          /\ Before(t.hdr_src, src) /\ Before(src, t.row_src[k])
          /\ is_table_line(LineAt(src))
          /\ LineAt(src).part_count # Len(t.header)
          /\ \A s \in Emitted : s.hdr_src # src

(***************************************************************************)
(* SpecLong: Spec on longer documents, made of fewer kinds of line, so     *)
(* that one page can hold two tables.                                      *)
(***************************************************************************)
MaxLongLines == 5   \* lines of a document, over all its pages

\* The lines a page's text is made of, with the whitespace and the bytes that
\* cleaning turns into whitespace where it could spoil a cell.
LongLines == {
    <<SP, SP, "a", SP, TAB, "b", NBSP, SP>>,               \* two columns: a, b
    <<"e", NUL, NUL, "f", SP, SP, SP, "g", SP, "h">>,      \* three: e, f, g h
    <<"x", SP, "y">> }                                     \* prose: one column

LongPageTexts(k) == { join_lines(ls) : ls \in [1..k -> LongLines] }

RECURSIVE LongDocuments(_, _)
\* the documents of m pages and at most n lines
LongDocuments(m, n) ==
    IF m = 0 THEN {<<>>}
    ELSE UNION { { <<t>> \o rest : t \in LongPageTexts(k),
                                   rest \in LongDocuments(m - 1, n - k) }
                 : k \in 0..n }

InitLong ==
    /\ reader_pages \in LongDocuments(MaxPages, MaxLongLines)
    /\ pages_data = <<>> /\ pg = 0 /\ ln = 0
    /\ current_table = None /\ tables = <<>>
    /\ pc = "extract"
    /\ IdleClean /\ IdleRefine /\ IdleExcel /\ IdleCalls /\ IdleBatch

SpecLong == InitLong /\ [][Next]_vars

\* C16: the tables are listed in the order in which they were detected: the
\* 'page' values never decrease along the list, and of two tables of the same
\* page the one whose header line comes first in the page is listed first.
C16_DetectionOrder ==
    \A i, j \in 1..Len(tables) :
        i < j =>
            /\ tables[i].page <= tables[j].page
            /\ Before(tables[i].hdr_src, tables[j].hdr_src)
            /\ tables[i].page = tables[j].page
                   => tables[i].hdr_src[2] < tables[j].hdr_src[2]

\* the detector has returned two tables whose headers are lines of one page
C16_Witness ==
    /\ pc = "done"
    /\ \E i, j \in 1..Len(tables) :
          /\ i < j
          /\ tables[i].page = tables[j].page
          /\ tables[i].hdr_src[1] = tables[j].hdr_src[1]

\* the tables the detector has emitted or is building
Detected == Emitted \cup (IF current_table = None THEN {} ELSE {current_table[1]})
\* a cell is a non-empty string that neither starts nor ends with whitespace
CleanCell(c) == c # <<>> /\ c[1] \notin Whitespace /\ c[Len(c)] \notin Whitespace

\* C17: in the tables detected in the structured lines of extraction every
\* header cell and every row cell is a non-empty string without leading or
\* trailing whitespace; refine_tables then keeps every table, with its page, its
\* header and all its rows, cell for cell.
C17_CellsCleanShapeKept ==
    /\ \A t \in Detected :
          /\ \A c \in 1..Len(t.header) : CleanCell(t.header[c])
          /\ \A k \in 1..Len(t.rows) : \A c \in 1..Len(t.rows[k]) :
                 CleanCell(t.rows[k][c])
    /\ pc = "refined" =>
          /\ Len(refined_tables) = Len(tables)
          /\ \A k \in 1..Len(tables) :
                 /\ refined_tables[k].page = tables[k].page
                 /\ refined_tables[k].data.columns = tables[k].header
                 /\ refined_tables[k].data.rows = tables[k].rows

\* refine_tables has returned a table whose lines had whitespace around their
\* text in the page, and a table with a cell that holds a single space
C17_Witness ==
    /\ pc = "refined"
    /\ \E k \in 1..Len(refined_tables) :
          /\ LineAt(tables[k].hdr_src).raw # LineAt(tables[k].hdr_src).text
          /\ Len(refined_tables[k].data.rows) >= 1
    /\ \E k \in 1..Len(refined_tables) : \E r \in 1..Len(tables[k].rows) :
          \E c \in 1..Len(tables[k].rows[r]) : Len(tables[k].rows[r][c]) > 1

\* process_pdf was called on the extractor
ProcessCalled == DOMAIN reader # {}

\* C18 as claimed: self.tables is the list the most recent process_pdf call
\* returned; after a call that returned the empty list because extraction failed,
\* to_excel exports nothing and returns False.
\* (It does not hold: process_pdf leaves self.tables as it was when it returns
\* at line 131, so the tables of an earlier call stay and are exported.)
C18_TablesAreLastReturn ==
    /\ extractor_tables = returned
    /\ (kpc = "exported" /\ ProcessCalled /\ reader_raises(reader))
           => (exported[1].ret = FALSE /\ exported[1].sheets = <<>>)

=============================================================================
